---- MODULE Spec2Model ----
(***************************************************************************)
(* Model of the chipin expense-sharing application:                        *)
(*   src/users/models.py  - Group, Profile, Event and the User post_save   *)
(*                          receivers                                      *)
(*   src/chipin/views.py  - the request handlers                           *)
(* The relational store is the state; a request handler is one action     *)
(* (SpecRace splits the event handlers at their database statements).      *)
(* Money is counted in whole currency units; a share is kept as the exact  *)
(* quotient <<numerator, denominator>>.                                    *)
(***************************************************************************)
EXTENDS Integers, Sequences, FiniteSets, TLC

\* ---------------------------------------------------------------- bounds
MaxUsers == 2
NumGroups == 2
MaxEvents == 1
MaxComments == 1
MaxRequests == 2

\* ------------------------------------------------------ program constants
DefaultMaxSpend == 100
DefaultNickname == ""

Users == 1..MaxUsers
Groups == 1..NumGroups
Nicknames == {DefaultNickname, "ann", "bob"}
MaxSpends == {50, 150}
TotalSpends == {100, 300}
Texts == {"hi", "yo"}
Methods == {"GET", "POST"}

VARIABLES
    users,          \* auth_user rows (ids)
    profiles,       \* Profile rows, keyed by their user: [nickname, max_spend]
    groupMembers,   \* Group.members: group id -> set of user ids
    events,         \* Event rows: id -> [group, total_spend, status]
    eventMembers,   \* Event.members through table: set of <<event id, user id>>
    nextEventId,    \* the auto-increment counter of the Event table
    deleted,        \* history: ids of the events delete_event has deleted
    comments,       \* Comment rows: id -> [user, group, text]
    nextCommentId,  \* the auto-increment counter of the Comment table
    reqs,           \* requests in flight (SpecRace): request id -> handler frame
    last            \* history: the last request and its outcome

vars == <<users, profiles, groupMembers, events, eventMembers, nextEventId,
          deleted, comments, nextCommentId, reqs, last>>

profileVars == <<users, profiles>>
eventVars == <<events, eventMembers, nextEventId, deleted>>
commentVars == <<comments, nextCommentId>>

\* op: the handler; user: the requester; group, obj: the ids in the URL
\* (obj is the event or comment id, 0 when absent); arg: the submitted value.
NoReq == [op |-> "none", user |-> 0, group |-> 0, obj |-> 0, arg |-> "", outcome |-> "none"]

Req(op, u, g, o, a, out) ==
    [op |-> op, user |-> u, group |-> g, obj |-> o, arg |-> a, outcome |-> out]

\* ------------------------------------------------------------- Profile
HasProfile(u) == u \in DOMAIN profiles

\* Profile.clean: another row (pk excluded) already holds the nickname.
Profile_clean_noExclude(pk, nickname) ==
    \E p \in DOMAIN profiles : profiles[p].nickname = nickname

Profile_clean(pk, nickname) ==
    \E p \in DOMAIN profiles : p # pk /\ profiles[p].nickname = nickname

\* The unique=True column constraint the database enforces on INSERT/UPDATE.
UniqueViolation(pk, nickname) ==
    \E p \in DOMAIN profiles : p # pk /\ profiles[p].nickname = nickname

\* Profile.save of the instance (pk, nickname, max_spend): clean(), then the
\* write.  pk = 0 is an instance not yet stored (pk None), stored under key u.
Profile_save(pk, u, nickname, max_spend) ==
    IF Profile_clean(pk, nickname)
    THEN [outcome |-> "ValidationError", rows |-> profiles]
    ELSE IF UniqueViolation(pk, nickname)
    THEN [outcome |-> "IntegrityError", rows |-> profiles]
    ELSE [outcome |-> "saved",
          rows |-> [p \in DOMAIN profiles \cup {u} |->
                      IF p = u THEN [nickname |-> nickname, max_spend |-> max_spend]
                      ELSE profiles[p]]]

\* User creation: the row is inserted, then post_save runs create_user_profile
\* (get_or_create -> Profile.save of a fresh Profile with the field defaults)
\* and save_user_profile (re-save of the Profile just created).  An exception
\* of the first receiver propagates; whether the User row stays depends on
\* whether the caller runs inside a transaction (atomic).
create_user(u, atomic) ==
    /\ u \notin users
    /\ u = Cardinality(users) + 1
    /\ LET r == Profile_save(0, u, DefaultNickname, DefaultMaxSpend) IN
        IF r.outcome = "saved"
        THEN /\ users' = users \cup {u}
             /\ profiles' = r.rows
             /\ last' = Req("create_user", u, 0, 0, DefaultNickname, "created")
        ELSE /\ users' = IF atomic THEN users ELSE users \cup {u}
             /\ profiles' = profiles
             /\ last' = Req("create_user", u, 0, 0, DefaultNickname, r.outcome)
    /\ UNCHANGED <<groupMembers, eventVars, commentVars, reqs>>

\* Saving an existing User: post_save with created = False; save_user_profile
\* re-saves the Profile when there is one.
save_user(u) ==
    /\ u \in users
    /\ IF HasProfile(u)
       THEN LET r == Profile_save(u, u, profiles[u].nickname, profiles[u].max_spend) IN
            /\ profiles' = r.rows
            /\ last' = Req("save_user", u, 0, 0, profiles[u].nickname, r.outcome)
       ELSE /\ profiles' = profiles
            /\ last' = Req("save_user", u, 0, 0, "", "no_profile")
    /\ UNCHANGED <<users, groupMembers, eventVars, commentVars, reqs>>

\* A Profile edit: the fields are set on the loaded instance, then save().
save_profile(u, nickname, max_spend) ==
    /\ HasProfile(u)
    /\ LET r == Profile_save(u, u, nickname, max_spend) IN
        /\ profiles' = r.rows
        /\ last' = Req("save_profile", u, 0, 0, nickname, r.outcome)
    /\ UNCHANGED <<users, groupMembers, eventVars, commentVars, reqs>>

InitProfile ==
    /\ users = {}
    /\ profiles = <<>>
    /\ groupMembers = [g \in Groups |-> {}]
    /\ events = <<>>
    /\ eventMembers = {}
    /\ nextEventId = 1
    /\ deleted = {}
    /\ comments = <<>>
    /\ nextCommentId = 1
    /\ reqs = <<>>
    /\ last = NoReq

NextProfile ==
    \/ \E u \in Users, atomic \in BOOLEAN : create_user(u, atomic)
    \/ \E u \in Users : save_user(u)
    \/ \E u \in Users, n \in Nicknames, m \in MaxSpends \cup {DefaultMaxSpend} :
          save_profile(u, n, m)

SpecProfile == InitProfile /\ [][NextProfile]_vars

\* ------------------------------------------------------- Group and Event
\* The admin of a group (Group.admin of chipin.models, read by the views).
GroupAdmin(g) == ((g - 1) % MaxUsers) + 1

Min(S) == CHOOSE x \in S : \A y \in S : x <= y

\* group.members.all(): the member rows in primary-key order.
RECURSIVE members_all(_)
members_all(S) ==
    IF S = {} THEN <<>> ELSE <<Min(S)>> \o members_all(S \ {Min(S)})

Lt_le(amount, share) == amount * share[2] <= share[1]

\* Comparison of an amount with a share <<numerator, denominator>>.
Lt(amount, share) == amount * share[2] < share[1]
Ge(amount, share) == amount * share[2] >= share[1]

\* Event.calculate_share of the event instance ev.
calculate_share(ev) ==
    LET members_count == Cardinality(groupMembers[ev.group]) IN
    IF members_count = 0 THEN <<0, 1>> ELSE <<ev.total_spend, members_count>>

\* The loop of Event.check_status over the members still to visit; status is
\* the instance's status so far.  member.profile raises when there is none.
RECURSIVE check_status_loop(_, _, _)
check_status_loop(ms, share, status) ==
    IF ms = <<>> THEN [status |-> "Active", ret |-> TRUE, raised |-> FALSE]
    ELSE IF ~HasProfile(Head(ms))
    THEN [status |-> status, ret |-> FALSE, raised |-> TRUE]
    ELSE IF Lt(profiles[Head(ms)].max_spend, share)
    THEN [status |-> "Pending", ret |-> FALSE, raised |-> FALSE]
    ELSE check_status_loop(Tail(ms), share, status)

\* Event.check_status of the event instance ev.
check_status(ev) ==
    check_status_loop(members_all(groupMembers[ev.group]), calculate_share(ev), ev.status)

\* all(member.profile.max_spend >= event_share for member in group.members.all())
\* of update_event_status: "true", "false", or "raise" (no profile).
RECURSIVE sufficient_funds_all(_, _)
sufficient_funds_all(ms, share) ==
    IF ms = <<>> THEN "true"
    ELSE IF ~HasProfile(Head(ms)) THEN "raise"
    ELSE IF Ge(profiles[Head(ms)].max_spend, share)
    THEN sufficient_funds_all(Tail(ms), share)
    ELSE "false"

sufficient_funds(ev) ==
    sufficient_funds_all(members_all(groupMembers[ev.group]), calculate_share(ev))

\* get_object_or_404(Event, id=event_id, group=group)
EventFound(g, e) == e \in DOMAIN events /\ events[e].group = g

MembersOf(e) == {u \in Users : <<e, u>> \in eventMembers}

\* event.save() of an instance loaded earlier: UPDATE of every column by pk,
\* and, when no row has that pk any more, INSERT of the instance under its pk.
Event_save(e, ev) ==
    [x \in DOMAIN events \cup {e} |-> IF x = e THEN ev ELSE events[x]]

\* The response: the history keeps the handler, requester, event id and outcome.
Respond(op, u, g, e, out) == last' = Req(op, u, 0, e, "", out)

create_event(u, g, method, total_spend, valid) ==
    /\ u \in users
    /\ (u = GroupAdmin(g) /\ method = "POST" /\ valid) => nextEventId <= MaxEvents
    /\ IF u # GroupAdmin(g)
       THEN /\ Respond("create_event", u, g, 0, "not_admin")
            /\ UNCHANGED eventVars
       ELSE IF method = "POST"
       THEN IF valid
            THEN /\ events' = Event_save(nextEventId,
                        [group |-> g, total_spend |-> total_spend, status |-> "Pending"])
                 /\ nextEventId' = nextEventId + 1
                 /\ Respond("create_event", u, g, nextEventId, "created")
                 /\ UNCHANGED <<eventMembers, deleted>>
            ELSE /\ Respond("create_event", u, g, 0, "error500")
                 /\ UNCHANGED eventVars
       ELSE /\ Respond("create_event", u, g, 0, "render")
            /\ UNCHANGED eventVars
    /\ UNCHANGED <<profileVars, groupMembers, commentVars, reqs>>

join_event_swapped(u, g, e) ==
    /\ u \in users
    /\ IF ~EventFound(g, e)
       THEN Respond("join_event", u, g, e, "404") /\ UNCHANGED eventVars
       ELSE IF ~HasProfile(u)
       THEN Respond("join_event", u, g, e, "error500") /\ UNCHANGED eventVars
       ELSE IF <<e, u>> \in eventMembers
       THEN Respond("join_event", u, g, e, "already_joined") /\ UNCHANGED eventVars
       ELSE IF Lt(profiles[u].max_spend, calculate_share(events[e]))
       THEN Respond("join_event", u, g, e, "too_low") /\ UNCHANGED eventVars
       ELSE LET c == check_status(events[e]) IN
            /\ eventMembers' = eventMembers \cup {<<e, u>>}
            /\ IF c.raised
               THEN Respond("join_event", u, g, e, "error500") /\ events' = events
               ELSE /\ Respond("join_event", u, g, e, "joined")
                    /\ events' = Event_save(e, [events[e] EXCEPT !.status = c.status])
            /\ UNCHANGED <<nextEventId, deleted>>
    /\ UNCHANGED <<profileVars, groupMembers, commentVars, reqs>>

join_event_addFirst(u, g, e) ==
    /\ u \in users
    /\ IF ~EventFound(g, e)
       THEN Respond("join_event", u, g, e, "404") /\ UNCHANGED eventVars
       ELSE IF ~HasProfile(u)
       THEN Respond("join_event", u, g, e, "error500") /\ UNCHANGED eventVars
       ELSE /\ eventMembers' = eventMembers \cup {<<e, u>>}
            /\ UNCHANGED <<nextEventId, deleted>>
            /\ IF Lt(profiles[u].max_spend, calculate_share(events[e]))
               THEN Respond("join_event", u, g, e, "too_low") /\ events' = events
               ELSE IF <<e, u>> \in eventMembers
               THEN Respond("join_event", u, g, e, "already_joined") /\ events' = events
               ELSE LET c == check_status(events[e]) IN
                    IF c.raised
                    THEN Respond("join_event", u, g, e, "error500") /\ events' = events
                    ELSE /\ Respond("join_event", u, g, e, "joined")
                         /\ events' = Event_save(e, [events[e] EXCEPT !.status = c.status])
    /\ UNCHANGED <<profileVars, groupMembers, commentVars, reqs>>

\* join_event: the event is looked up in the URL's group, request.user.profile
\* is read (raises without one), the eligibility check precedes the
\* already-joined check; members.add is committed before check_status runs.
join_event(u, g, e) ==
    /\ u \in users
    /\ IF ~EventFound(g, e)
       THEN Respond("join_event", u, g, e, "404") /\ UNCHANGED eventVars
       ELSE IF ~HasProfile(u)
       THEN Respond("join_event", u, g, e, "error500") /\ UNCHANGED eventVars
       ELSE IF Lt(profiles[u].max_spend, calculate_share(events[e]))
       THEN Respond("join_event", u, g, e, "too_low") /\ UNCHANGED eventVars
       ELSE IF <<e, u>> \in eventMembers
       THEN Respond("join_event", u, g, e, "already_joined") /\ UNCHANGED eventVars
       ELSE LET c == check_status(events[e]) IN
            /\ eventMembers' = eventMembers \cup {<<e, u>>}
            /\ IF c.raised
               THEN Respond("join_event", u, g, e, "error500") /\ events' = events
               ELSE /\ Respond("join_event", u, g, e, "joined")
                    /\ events' = Event_save(e, [events[e] EXCEPT !.status = c.status])
            /\ UNCHANGED <<nextEventId, deleted>>
    /\ UNCHANGED <<profileVars, groupMembers, commentVars, reqs>>

update_event_status(u, g, e) ==
    /\ u \in users
    /\ IF ~EventFound(g, e)
       THEN Respond("update_event_status", u, g, e, "404") /\ events' = events
       ELSE IF u # GroupAdmin(g)
       THEN Respond("update_event_status", u, g, e, "not_admin") /\ events' = events
       ELSE LET s == sufficient_funds(events[e]) IN
            IF s = "raise"
            THEN Respond("update_event_status", u, g, e, "error500") /\ events' = events
            ELSE /\ Respond("update_event_status", u, g, e, "status_updated")
                 /\ events' = Event_save(e, [events[e] EXCEPT
                        !.status = IF s = "true" THEN "Active" ELSE "Pending"])
    /\ UNCHANGED <<eventMembers, nextEventId, deleted>>
    /\ UNCHANGED <<profileVars, groupMembers, commentVars, reqs>>

leave_event(u, g, e) ==
    /\ u \in users
    /\ IF ~EventFound(g, e)
       THEN Respond("leave_event", u, g, e, "404") /\ UNCHANGED eventVars
       ELSE IF <<e, u>> \notin eventMembers
       THEN Respond("leave_event", u, g, e, "not_member") /\ UNCHANGED eventVars
       ELSE LET c == check_status(events[e]) IN
            /\ eventMembers' = eventMembers \ {<<e, u>>}
            /\ IF c.raised
               THEN Respond("leave_event", u, g, e, "error500") /\ events' = events
               ELSE /\ Respond("leave_event", u, g, e, "left")
                    /\ events' = Event_save(e, [events[e] EXCEPT !.status = c.status])
            /\ UNCHANGED <<nextEventId, deleted>>
    /\ UNCHANGED <<profileVars, groupMembers, commentVars, reqs>>

\* event.delete(): the Event row and its rows of the members through table.
Event_delete(e) ==
    /\ events' = [x \in DOMAIN events \ {e} |-> events[x]]
    /\ eventMembers' = {r \in eventMembers : r[1] # e}
    /\ deleted' = deleted \cup {e}

delete_event(u, g, e) ==
    /\ u \in users
    /\ IF ~EventFound(g, e)
       THEN Respond("delete_event", u, g, e, "404") /\ UNCHANGED eventVars
       ELSE IF u # GroupAdmin(g)
       THEN Respond("delete_event", u, g, e, "not_admin") /\ UNCHANGED eventVars
       ELSE /\ Event_delete(e)
            /\ Respond("delete_event", u, g, e, "deleted")
            /\ UNCHANGED nextEventId
    /\ UNCHANGED <<profileVars, groupMembers, commentVars, reqs>>

\* Group-membership changes (the invitation and join-request handlers).
group_add_member(g, u) ==
    /\ u \in users /\ u \notin groupMembers[g]
    /\ groupMembers' = [groupMembers EXCEPT ![g] = @ \cup {u}]
    /\ last' = Req("group_add_member", 0, 0, 0, "", "ok")
    /\ UNCHANGED <<profileVars, eventVars, commentVars, reqs>>

group_remove_member(g, u) ==
    /\ u \in groupMembers[g]
    /\ groupMembers' = [groupMembers EXCEPT ![g] = @ \ {u}]
    /\ last' = Req("group_remove_member", 0, 0, 0, "", "ok")
    /\ UNCHANGED <<profileVars, eventVars, commentVars, reqs>>

\* A max_spend change: a Profile edit that keeps the nickname.
set_max_spend(u, max_spend) ==
    /\ HasProfile(u)
    /\ save_profile(u, profiles[u].nickname, max_spend)

\* The store the event handlers start from: every user registered, some of
\* them with a Profile (each reachable under SpecProfile), no group members.
InitialNicknames(P) ==
    CHOOSE f \in [P -> Nicknames] : \A p, q \in P : p # q => f[p] # f[q]

Init ==
    /\ users = Users
    /\ \E P \in SUBSET Users :
       \E ms \in [P -> MaxSpends] :
          profiles = [p \in P |-> [nickname |-> InitialNicknames(P)[p],
                                   max_spend |-> ms[p]]]
    /\ groupMembers = [g \in Groups |-> {}]
    /\ events = <<>>
    /\ eventMembers = {}
    /\ nextEventId = 1
    /\ deleted = {}
    /\ comments = <<>>
    /\ nextCommentId = 1
    /\ reqs = <<>>
    /\ last = NoReq

EventIds == 1..MaxEvents

Next ==
    \/ \E u \in Users, g \in Groups, method \in Methods, t \in TotalSpends, valid \in BOOLEAN :
          create_event(u, g, method, t, valid)
    \/ \E u \in Users, g \in Groups, e \in EventIds : join_event(u, g, e)
    \/ \E u \in Users, g \in Groups, e \in EventIds : update_event_status(u, g, e)
    \/ \E u \in Users, g \in Groups, e \in EventIds : leave_event(u, g, e)
    \/ \E u \in Users, g \in Groups, e \in EventIds : delete_event(u, g, e)
    \/ \E g \in Groups, u \in Users : group_add_member(g, u)
    \/ \E g \in Groups, u \in Users : group_remove_member(g, u)
    \/ \E u \in Users, m \in MaxSpends : set_max_spend(u, m)

Spec == Init /\ [][Next]_vars

\* ------------------------------------------------ claims on the handlers
\* The rule of the data model: every current member of the event's group can
\* afford total_spend / (number of group members).
CanAllAfford(e) ==
    LET G == groupMembers[events[e].group] IN
    \A m \in G : HasProfile(m) /\ profiles[m].max_spend * Cardinality(G) >= events[e].total_spend

RuleStatus(e) == IF CanAllAfford(e) THEN "Active" ELSE "Pending"

\* C1: in every reachable state each existing event's status is 'Active' iff
\* every current member of its group has max_spend >= share, else 'Pending'.
C1_StatusReflectsAffordability ==
    \A e \in DOMAIN events : events[e].status = RuleStatus(e)

\* C2: in every reachable state the members of an event are members of the
\* event's group.
C2_EventMembersSubsetOfGroup ==
    \A e \in DOMAIN events : MembersOf(e) \subseteq groupMembers[events[e].group]

\* C3: check_status and update_event_status derive the same status from the
\* same rule: 'Active' exactly when every current group member has
\* max_spend >= share, 'Pending' otherwise; check_status returns true iff it
\* set 'Active'; both raise on the same states (a member without a Profile
\* reached before any member who cannot afford the share), and the status a
\* completed join, leave or status update stores is the rule's.
C3_SameStatusRule ==
    /\ \A e \in DOMAIN events :
          LET c == check_status(events[e])
              s == sufficient_funds(events[e])
          IN  /\ c.raised <=> (s = "raise")
              /\ c.ret <=> (~c.raised /\ c.status = "Active")
              /\ ~c.raised =>
                    /\ c.status = RuleStatus(e)
                    /\ (s = "true") <=> CanAllAfford(e)
                    /\ c.status = (IF s = "true" THEN "Active" ELSE "Pending")
    /\ (last.outcome \in {"joined", "left", "status_updated"} /\ last.obj \in DOMAIN events)
          => events[last.obj].status = RuleStatus(last.obj)

C3_Witness ==
    /\ last.outcome \in {"joined", "status_updated"}
    /\ last.obj \in DOMAIN events
    /\ Cardinality(groupMembers[events[last.obj].group]) = 2
    /\ events[last.obj].status = "Active"
    /\ events[last.obj].total_spend = 300

FailedPrecondition == {"not_admin", "too_low", "already_joined", "not_member"}

\* C4: a handler invocation that fails its precondition (not the group admin;
\* max_spend < share; already joined; not a member) leaves the set of events,
\* every event's member set and every event's status as they were, and these
\* outcomes are produced exactly on those preconditions.
C4_NoPartialMutationOnFailure ==
    [][ LET r == last' IN
        /\ r.outcome \in FailedPrecondition =>
              /\ events' = events
              /\ eventMembers' = eventMembers
              /\ nextEventId' = nextEventId
        /\ r.outcome = "too_low" =>
              Lt(profiles[r.user].max_spend, calculate_share(events[r.obj]))
        /\ r.outcome = "already_joined" => <<r.obj, r.user>> \in eventMembers
        /\ r.outcome = "not_member" => <<r.obj, r.user>> \notin eventMembers
        /\ r.outcome = "not_admin" /\ r.obj # 0 => r.user # GroupAdmin(events[r.obj].group)
        /\ (r.op = "leave_event" /\ r.outcome # "404" /\ <<r.obj, r.user>> \notin eventMembers)
              => r.outcome = "not_member"
        /\ (r.op \in {"update_event_status", "delete_event"} /\ r.outcome # "404"
                /\ r.user # GroupAdmin(events[r.obj].group))
              => r.outcome = "not_admin"
        /\ (r.op = "join_event" /\ r.outcome # "404" /\ HasProfile(r.user)
                /\ Lt(profiles[r.user].max_spend, calculate_share(events[r.obj])))
              => r.outcome = "too_low"
      ]_vars

C4_Witness ==
    /\ last.op = "join_event"
    /\ last.outcome = "too_low"
    /\ eventMembers # {}
    /\ <<last.obj, last.user>> \notin eventMembers

\* C5 as stated: whatever happened since the first join, a further join_event
\* by a member of the event answers "already joined" and leaves the member
\* set unchanged.
C5_SecondJoinAlreadyJoined ==
    [][ (last'.op = "join_event" /\ last'.outcome # "404"
            /\ <<last'.obj, last'.user>> \in eventMembers)
        => (last'.outcome = "already_joined" /\ eventMembers' = eventMembers) ]_vars

\* C5 as amended: a further join_event by a member of the event leaves the
\* member set and the event unchanged; it answers "already joined" when the
\* member's max_spend >= the current share and "max spend too low" when
\* max_spend < the current share (the eligibility check comes first).
C5_SecondJoinNoOp ==
    [][ (last'.op = "join_event" /\ last'.outcome # "404"
            /\ <<last'.obj, last'.user>> \in eventMembers)
        => /\ eventMembers' = eventMembers
           /\ events' = events
           /\ last'.outcome =
                IF Lt(profiles[last'.user].max_spend, calculate_share(events[last'.obj]))
                THEN "too_low" ELSE "already_joined" ]_vars

C5_Witness ==
    /\ last.op = "join_event"
    /\ last.outcome = "too_low"
    /\ <<last.obj, last.user>> \in eventMembers

\* ------------------------------------------------------------ comments
GroupHasEvents(g) == \E e \in DOMAIN events : events[e].group = g

\* The tail of group_detail: the share table reads request.user.profile for
\* every event of the group, then the page is rendered.
group_detail_render(u, g, c, text) ==
    /\ last' = Req("group_detail", u, g, c, text,
                   IF GroupHasEvents(g) /\ ~HasProfile(u) THEN "error500" ELSE "render")
    /\ UNCHANGED commentVars

\* form.save(commit=False); comment.user = request.user; comment.group = group;
\* comment.save(): c = 0 is a new Comment, stored under the next id.
Comment_save(u, g, c, text) ==
    LET id == IF c = 0 THEN nextCommentId ELSE c IN
    /\ comments' = [x \in DOMAIN comments \cup {id} |->
                      IF x = id THEN [user |-> u, group |-> g, text |-> text]
                      ELSE comments[x]]
    /\ nextCommentId' = IF c = 0 THEN nextCommentId + 1 ELSE nextCommentId
    /\ last' = Req("group_detail", u, g, c, text, IF c = 0 THEN "created" ELSE "edited")

group_detail_noAuthorCheck(u, g, c, method, text) ==
    /\ u \in users
    /\ (c = 0 /\ method = "POST" /\ text # "") => nextCommentId <= MaxComments
    /\ IF c # 0 /\ c \notin DOMAIN comments
       THEN last' = Req("group_detail", u, g, c, text, "404") /\ UNCHANGED commentVars
       ELSE IF method = "POST" /\ text # ""
       THEN Comment_save(u, g, c, text)
       ELSE group_detail_render(u, g, c, text)
    /\ UNCHANGED <<profileVars, groupMembers, eventVars, reqs>>

\* group_detail(request, group_id, edit_comment_id): c = 0 is no (or a falsy)
\* edit_comment_id; the form is valid when the text is not empty.
group_detail(u, g, c, method, text) ==
    /\ u \in users
    /\ (c = 0 /\ method = "POST" /\ text # "") => nextCommentId <= MaxComments
    /\ IF c # 0 /\ c \notin DOMAIN comments
       THEN last' = Req("group_detail", u, g, c, text, "404") /\ UNCHANGED commentVars
       ELSE IF c # 0 /\ comments[c].user # u
       THEN /\ last' = Req("group_detail", u, g, c, text, "redirect_not_author")
            /\ UNCHANGED commentVars
       ELSE IF method = "POST" /\ text # ""
       THEN Comment_save(u, g, c, text)
       ELSE group_detail_render(u, g, c, text)
    /\ UNCHANGED <<profileVars, groupMembers, eventVars, reqs>>

\* The store the comment handler starts from: every user registered, the last
\* of them with or without a Profile, one event in group 1, no comments.
InitComment ==
    /\ users = Users
    /\ \E P \in {Users, Users \ {MaxUsers}} :
          profiles = [p \in P |-> [nickname |-> InitialNicknames(P)[p],
                                   max_spend |-> DefaultMaxSpend]]
    /\ groupMembers = [g \in Groups |-> {}]
    /\ events = <<[group |-> 1, total_spend |-> 100, status |-> "Pending"]>>
    /\ eventMembers = {}
    /\ nextEventId = 2
    /\ deleted = {}
    /\ comments = <<>>
    /\ nextCommentId = 1
    /\ reqs = <<>>
    /\ last = NoReq

CommentIds == 0..MaxComments

NextComment ==
    \E u \in Users, g \in Groups, c \in CommentIds, method \in Methods, text \in Texts \cup {""} :
        group_detail(u, g, c, method, text)

SpecComment == InitComment /\ [][NextComment]_vars

\* C6: a group_detail request (GET or POST) with an edit_comment_id whose
\* comment was written by someone else is redirected; no comment's text,
\* author or group changes and no comment is created.
C6_EditByNonAuthorRejected ==
    [][ (last'.op = "group_detail" /\ last'.obj \in DOMAIN comments
            /\ comments[last'.obj].user # last'.user)
        => /\ last'.outcome = "redirect_not_author"
           /\ comments' = comments
           /\ nextCommentId' = nextCommentId ]_vars

C6_Witness ==
    /\ last.op = "group_detail"
    /\ last.outcome = "redirect_not_author"
    /\ last.arg # ""
    /\ last.obj \in DOMAIN comments
    /\ comments[last.obj].text # last.arg

\* C9: a successful comment edit changes only the text: the comment keeps
\* its author and its group, and no comment is created or removed.
C9_EditChangesOnlyText ==
    [][ (last'.op = "group_detail" /\ last'.outcome = "edited")
        => /\ DOMAIN comments' = DOMAIN comments
           /\ comments'[last'.obj].user = comments[last'.obj].user
           /\ comments'[last'.obj].group = comments[last'.obj].group
           /\ \A x \in DOMAIN comments \ {last'.obj} : comments'[x] = comments[x] ]_vars

\* ------------------------------------------------- claims on the profiles
\* C7: after any sequence of User creations and Profile edits every existing
\* User has a Profile, and no User creation ends in a validation error.
C7_EveryUserHasProfile ==
    /\ \A u \in users : HasProfile(u)
    /\ ~(last.op = "create_user" /\ last.outcome = "ValidationError")

NicknameTaken(pk, nickname) ==
    \E p \in DOMAIN profiles \ {pk} : profiles[p].nickname = nickname

\* C8: no two Profiles share a nickname; a Profile save whose nickname is
\* that of a different Profile raises a validation error and leaves the
\* stored Profiles unchanged; a save with a nickname no other Profile holds
\* (the Profile's own unchanged nickname included) succeeds.
C8_NicknamesUnique ==
    /\ [](\A p, q \in DOMAIN profiles : p # q => profiles[p].nickname # profiles[q].nickname)
    /\ [][ LET r == last' IN
           /\ (r.op \in {"save_profile", "save_user"} /\ r.outcome # "no_profile") =>
                 IF NicknameTaken(r.user, r.arg)
                 THEN r.outcome = "ValidationError" /\ profiles' = profiles
                 ELSE r.outcome = "saved" /\ profiles'[r.user].nickname = r.arg
           /\ (r.op \in {"save_profile", "save_user"} /\ r.outcome # "no_profile"
                  /\ r.arg = profiles[r.user].nickname) => r.outcome = "saved"
           /\ r.op = "create_user" =>
                 IF NicknameTaken(0, r.arg)
                 THEN r.outcome = "ValidationError" /\ profiles' = profiles
                 ELSE r.outcome = "created"
         ]_vars

C8_Witness ==
    /\ last.op = "save_profile"
    /\ last.outcome = "ValidationError"
    /\ last.arg = "ann"
    /\ profiles[last.user].nickname = "bob"

\* ------------------------------------------ the event handlers, statement
\* by statement.  A frame holds the handler's local variables: the requester,
\* the event id, the Event instance as loaded (ev) and the next statement.
Frame(op, u, e, pc) == [op |-> op, user |-> u, e |-> e, ev |-> events[e], pc |-> pc]

FreeSlot(r) == r \notin DOMAIN reqs
At(r, op, pc) == r \in DOMAIN reqs /\ reqs[r].op = op /\ reqs[r].pc = pc
Push(r, f) == reqs' = [x \in DOMAIN reqs \cup {r} |-> IF x = r THEN f ELSE reqs[x]]
Pop(r) == reqs' = [x \in DOMAIN reqs \ {r} |-> reqs[x]]
Goto(r, pc) == reqs' = [reqs EXCEPT ![r].pc = pc]
Finish(r, out) == Pop(r) /\ Respond(reqs[r].op, reqs[r].user, 0, reqs[r].e, out)

raceFrame == <<profileVars, groupMembers, commentVars>>

\* join_event, views.py 105-116: the lookups and the two checks.
join_load(r, u, g, e) ==
    /\ FreeSlot(r) /\ u \in users
    /\ IF ~EventFound(g, e) THEN Respond("join_event", u, g, e, "404") /\ UNCHANGED reqs
       ELSE IF ~HasProfile(u) THEN Respond("join_event", u, g, e, "error500") /\ UNCHANGED reqs
       ELSE IF Lt(profiles[u].max_spend, calculate_share(events[e]))
       THEN Respond("join_event", u, g, e, "too_low") /\ UNCHANGED reqs
       ELSE IF <<e, u>> \in eventMembers
       THEN Respond("join_event", u, g, e, "already_joined") /\ UNCHANGED reqs
       ELSE Push(r, Frame("join_event", u, e, "add")) /\ UNCHANGED last
    /\ UNCHANGED <<eventVars, raceFrame>>

\* event.members.add(request.user): an INSERT into the through table.  When
\* the Event row is gone the foreign key either rejects the row
\* (IntegrityError) or, where the database does not enforce it, lets it in.
join_add(r, fk) ==
    /\ At(r, "join_event", "add")
    /\ IF reqs[r].e \notin DOMAIN events /\ fk
       THEN Finish(r, "error500") /\ UNCHANGED eventMembers
       ELSE /\ eventMembers' = eventMembers \cup {<<reqs[r].e, reqs[r].user>>}
            /\ Goto(r, "check") /\ UNCHANGED last
    /\ UNCHANGED <<events, nextEventId, deleted, raceFrame>>

\* event.check_status() on the loaded instance, reading the current group.
handler_check_status(r, op) ==
    /\ At(r, op, "check")
    /\ LET c == check_status(reqs[r].ev) IN
        IF c.raised THEN Finish(r, "error500")
        ELSE /\ reqs' = [reqs EXCEPT ![r].ev.status = c.status, ![r].pc = "save"]
             /\ UNCHANGED last
    /\ UNCHANGED <<eventVars, raceFrame>>

\* event.save() of the loaded instance.
handler_save(r, op, out) ==
    /\ At(r, op, "save")
    /\ events' = Event_save(reqs[r].e, reqs[r].ev)
    /\ Finish(r, out)
    /\ UNCHANGED <<eventMembers, nextEventId, deleted, raceFrame>>

join_check_status(r) == handler_check_status(r, "join_event")
join_save(r) == handler_save(r, "join_event", "joined")

\* leave_event, views.py 156-161.
leave_load(r, u, g, e) ==
    /\ FreeSlot(r) /\ u \in users
    /\ IF ~EventFound(g, e) THEN Respond("leave_event", u, g, e, "404") /\ UNCHANGED reqs
       ELSE IF <<e, u>> \notin eventMembers
       THEN Respond("leave_event", u, g, e, "not_member") /\ UNCHANGED reqs
       ELSE Push(r, Frame("leave_event", u, e, "remove")) /\ UNCHANGED last
    /\ UNCHANGED <<eventVars, raceFrame>>

\* event.members.remove(request.user): a DELETE on the through table.
leave_remove(r) ==
    /\ At(r, "leave_event", "remove")
    /\ eventMembers' = eventMembers \ {<<reqs[r].e, reqs[r].user>>}
    /\ Goto(r, "check") /\ UNCHANGED last
    /\ UNCHANGED <<events, nextEventId, deleted, raceFrame>>

leave_check_status(r) == handler_check_status(r, "leave_event")
leave_save(r) == handler_save(r, "leave_event", "left")

\* update_event_status, views.py 130-135.
update_load(r, u, g, e) ==
    /\ FreeSlot(r) /\ u \in users
    /\ IF ~EventFound(g, e)
       THEN Respond("update_event_status", u, g, e, "404") /\ UNCHANGED reqs
       ELSE IF u # GroupAdmin(g)
       THEN Respond("update_event_status", u, g, e, "not_admin") /\ UNCHANGED reqs
       ELSE Push(r, Frame("update_event_status", u, e, "compute")) /\ UNCHANGED last
    /\ UNCHANGED <<eventVars, raceFrame>>

\* views.py 137-147: the share, sufficient_funds and the status assignment.
update_compute(r) ==
    /\ At(r, "update_event_status", "compute")
    /\ LET s == sufficient_funds(reqs[r].ev) IN
        IF s = "raise" THEN Finish(r, "error500")
        ELSE /\ reqs' = [reqs EXCEPT ![r].pc = "save",
                    ![r].ev.status = IF s = "true" THEN "Active" ELSE "Pending"]
             /\ UNCHANGED last
    /\ UNCHANGED <<eventVars, raceFrame>>

update_save(r) == handler_save(r, "update_event_status", "status_updated")

\* delete_event, views.py 172-177.
delete_load(r, u, g, e) ==
    /\ FreeSlot(r) /\ u \in users
    /\ IF ~EventFound(g, e) THEN Respond("delete_event", u, g, e, "404") /\ UNCHANGED reqs
       ELSE IF u # GroupAdmin(g)
       THEN Respond("delete_event", u, g, e, "not_admin") /\ UNCHANGED reqs
       ELSE Push(r, Frame("delete_event", u, e, "delete")) /\ UNCHANGED last
    /\ UNCHANGED <<eventVars, raceFrame>>

\* event.delete() and the success response.
delete_delete(r) ==
    /\ At(r, "delete_event", "delete")
    /\ Event_delete(reqs[r].e)
    /\ Finish(r, "deleted")
    /\ UNCHANGED <<nextEventId, raceFrame>>

\* The store the concurrent requests start from: both kinds of member in
\* every group (max_spend 50 and 150), no events.
InitRace ==
    /\ users = Users
    /\ profiles = [p \in Users |-> [nickname |-> InitialNicknames(Users)[p],
                                    max_spend |-> IF p = 1 THEN 50 ELSE 150]]
    /\ groupMembers = [g \in Groups |-> Users]
    /\ events = <<>>
    /\ eventMembers = {}
    /\ nextEventId = 1
    /\ deleted = {}
    /\ comments = <<>>
    /\ nextCommentId = 1
    /\ reqs = <<>>
    /\ last = NoReq

Slots == 1..MaxRequests

NextRace ==
    \/ \E u \in Users, g \in Groups, t \in TotalSpends : create_event(u, g, "POST", t, TRUE)
    \/ \E r \in Slots, u \in Users, g \in Groups, e \in EventIds : join_load(r, u, g, e)
    \/ \E r \in Slots, fk \in BOOLEAN : join_add(r, fk)
    \/ \E r \in Slots : join_check_status(r)
    \/ \E r \in Slots : join_save(r)
    \/ \E r \in Slots, u \in Users, g \in Groups, e \in EventIds : leave_load(r, u, g, e)
    \/ \E r \in Slots : leave_remove(r)
    \/ \E r \in Slots : leave_check_status(r)
    \/ \E r \in Slots : leave_save(r)
    \/ \E r \in Slots, u \in Users, g \in Groups, e \in EventIds : update_load(r, u, g, e)
    \/ \E r \in Slots : update_compute(r)
    \/ \E r \in Slots : update_save(r)
    \/ \E r \in Slots, u \in Users, g \in Groups, e \in EventIds : delete_load(r, u, g, e)
    \/ \E r \in Slots : delete_delete(r)

SpecRace == InitRace /\ [][NextRace]_vars

\* C10: once delete_event has completed for an event, the event and its
\* membership rows exist in no later state, whatever requests that loaded the
\* event earlier write afterwards.
C10_DeletionIsFinal ==
    \A e \in deleted : e \notin DOMAIN events /\ MembersOf(e) = {}

====
